---- MODULE Spec2Model ----
(***************************************************************************)
(* Model of the bulk SendGrid mailer (sendEmails.js and its later revision *)
(* with parseInt and a log file).  One run of init() is a state machine:   *)
(* config check, streaming scan of the CSV (getCsvInfo), Email-column and  *)
(* template-token checks, confirmation, then the batched dispatch loop.    *)
(* Strings are sequences of one-character strings; JavaScript values are   *)
(* tagged records so that string/number coercions are computed as the      *)
(* engine computes them.                                                   *)
(***************************************************************************)
EXTENDS Integers, Sequences, FiniteSets

\* ------------------------------------------------------------------ bounds
\* Largest number of data rows of a generated CSV file.
MaxRecords == 4
\* Largest size of a chunk the read stream hands to the "data" handler in
\* the scanner scenarios.
MaxChunk == 8
\* Largest number of batch bodies a run is followed through: a loop whose
\* index never passes recordCount is cut off here.
MaxBatches == 6

\* ------------------------------------------------------- JavaScript values
Num(n) == [t |-> "number", v |-> n]
Str(s) == [t |-> "string", v |-> s]
Undefined == [t |-> "undefined", v |-> <<>>]
NaN == [t |-> "NaN", v |-> <<>>]
False == [t |-> "false", v |-> <<>>]
Pending == [t |-> "pending", v |-> <<>>]

Digits == <<"0", "1", "2", "3", "4", "5", "6", "7", "8", "9">>
DigitSet == {Digits[k] : k \in DOMAIN Digits}
DigitVal(c) == (CHOOSE k \in DOMAIN Digits : Digits[k] = c) - 1

LowerChars == {"a", "b", "c", "d", "e", "f", "g", "h", "i", "j", "k", "l", "m",
               "n", "o", "p", "q", "r", "s", "t", "u", "v", "w", "x", "y", "z"}
UpperChars == {"A", "B", "C", "D", "E", "F", "G", "H", "I", "J", "K", "L", "M",
               "N", "O", "P", "Q", "R", "S", "T", "U", "V", "W", "X", "Y", "Z"}
\* The character class [a-zA-Z0-9_] of the token pattern.
WordChars == LowerChars \cup UpperChars \cup DigitSet \cup {"_"}

\* Number -> decimal string.
RECURSIVE NatToString(_)
NatToString(n) ==
    IF n < 10 THEN <<Digits[n + 1]>>
    ELSE NatToString(n \div 10) \o <<Digits[(n % 10) + 1]>>
NumberToString(n) == IF n < 0 THEN <<"-">> \o NatToString(-n) ELSE NatToString(n)

\* Value of a non-empty all-digit string.
RECURSIVE DigitsToNat(_)
DigitsToNat(s) ==
    IF s = <<>> THEN 0
    ELSE 10 * DigitsToNat(SubSeq(s, 1, Len(s) - 1)) + DigitVal(s[Len(s)])
AllDigits(s) == \A k \in DOMAIN s : s[k] \in DigitSet

\* Length of the longest all-digit prefix of s.
RECURSIVE DigitPrefixLen(_)
DigitPrefixLen(s) ==
    IF s = <<>> \/ s[1] \notin DigitSet THEN 0 ELSE 1 + DigitPrefixLen(Tail(s))

\* ToString of the values that reach a string concatenation.
ToString(x) == IF x.t = "number" THEN NumberToString(x.v) ELSE x.v

\* ToNumber: the empty string is 0, an optionally signed digit string is its
\* value, every other string is NaN.
ToNumber(x) ==
    IF x.t = "number" THEN x
    ELSE IF x.t # "string" THEN NaN
    ELSE IF x.v = <<>> THEN Num(0)
    ELSE IF AllDigits(x.v) THEN Num(DigitsToNat(x.v))
    ELSE IF x.v[1] \in {"-", "+"} /\ Len(x.v) > 1 /\ AllDigits(Tail(x.v))
         THEN Num((IF x.v[1] = "-" THEN -1 ELSE 1) * DigitsToNat(Tail(x.v)))
    ELSE NaN

\* parseInt(x, 10): the longest optionally signed digit prefix, NaN if none
\* (parseInt(undefined) parses the text "undefined").
parseInt(x) ==
    IF x.t # "string" \/ x.v = <<>> THEN NaN
    ELSE LET signed == x.v[1] \in {"-", "+"}
             body == IF signed THEN Tail(x.v) ELSE x.v
             n == DigitPrefixLen(body)
         IN IF n = 0 THEN NaN
            ELSE Num((IF x.v[1] = "-" THEN -1 ELSE 1) * DigitsToNat(SubSeq(body, 1, n)))

\* Truthiness: 0, NaN, "", undefined and false are falsy.
Truthy(x) ==
    CASE x.t = "number" -> x.v # 0
      [] x.t = "string" -> x.v # <<>>
      [] OTHER -> FALSE

\* a || b
Or(a, b) == IF Truthy(a) THEN a ELSE b

\* a + b: numeric sum of two numbers, else the concatenation of the strings.
Add(a, b) ==
    IF a.t = "number" /\ b.t = "number" THEN Num(a.v + b.v)
    ELSE Str(ToString(a) \o ToString(b))

\* a <= b and a < b with a number on one side: numeric comparison, false on NaN.
LessEq(a, b) ==
    LET x == ToNumber(a)
        y == ToNumber(b)
    IN x.t = "number" /\ y.t = "number" /\ x.v <= y.v
Less(a, b) ==
    LET x == ToNumber(a)
        y == ToNumber(b)
    IN x.t = "number" /\ y.t = "number" /\ x.v < y.v

\* array[key]: an element exists only for a canonical array index inside
\* the array; anything else reads as undefined (modelled as "no row").
IsIndex(key) ==
    \/ key.t = "number" /\ key.v >= 0
    \/ key.t = "string" /\ key.v # <<>> /\ AllDigits(key.v)
       /\ NatToString(DigitsToNat(key.v)) = key.v
IndexOf(key) == IF key.t = "number" THEN key.v ELSE DigitsToNat(key.v)
HasElement(arr, key) == IsIndex(key) /\ IndexOf(key) < Len(arr)
Element(arr, key) == arr[IndexOf(key) + 1]

\* --------------------------------------------------------------- text
\* Array.prototype.indexOf: the 0-based index of the first equal element,
\* -1 when there is none.
indexOf(arr, x) ==
    IF \E k \in DOMAIN arr : arr[k] = x
    THEN (CHOOSE k \in DOMAIN arr : arr[k] = x /\ \A m \in 1..(k - 1) : arr[m] # x) - 1
    ELSE -1

\* First position >= p of text that holds no character of [a-zA-Z0-9_].
RECURSIVE WordRunEnd(_, _)
WordRunEnd(text, p) ==
    IF p <= Len(text) /\ text[p] \in WordChars THEN WordRunEnd(text, p + 1) ELSE p

\* /@[a-zA-Z0-9_]*@/ matches at position p: an "@", a (possibly empty) run of
\* word characters, an "@".
MatchAt(text, p) ==
    /\ text[p] = "@"
    /\ WordRunEnd(text, p + 1) <= Len(text)
    /\ text[WordRunEnd(text, p + 1)] = "@"
MatchEnd(text, p) == WordRunEnd(text, p + 1)

\* The matches of the global pattern from position p on: leftmost first,
\* not overlapping.
RECURSIVE MatchAll(_, _)
MatchAll(text, p) ==
    IF p > Len(text) THEN <<>>
    ELSE IF MatchAt(text, p)
         THEN <<SubSeq(text, p, MatchEnd(text, p))>> \o MatchAll(text, MatchEnd(text, p) + 1)
         ELSE MatchAll(text, p + 1)

\* String.prototype.match with a global pattern: null when nothing matches,
\* else the array of matched substrings.
Match(text) ==
    [isNull |-> MatchAll(text, 1) = <<>>, items |-> MatchAll(text, 1)]

\* tokenName.slice(1, -1)
TokenName(token) == SubSeq(token, 2, Len(token) - 1)

\* The replacer of replaceTokens: values[keys.indexOf(name)] || match.
\* A missing index reads undefined; undefined and "" are falsy.
Replacement(match, keys, values) ==
    LET idx == indexOf(keys, TokenName(match))
        value == IF idx >= 0 /\ idx < Len(values) THEN Str(values[idx + 1]) ELSE Undefined
    IN Or(value, Str(match)).v

RECURSIVE ReplaceFrom(_, _, _, _)
ReplaceFrom(input, keys, values, p) ==
    IF p > Len(input) THEN <<>>
    ELSE IF MatchAt(input, p)
         THEN Replacement(SubSeq(input, p, MatchEnd(input, p)), keys, values)
              \o ReplaceFrom(input, keys, values, MatchEnd(input, p) + 1)
         ELSE <<input[p]>> \o ReplaceFrom(input, keys, values, p + 1)

\* Mutant of replaceTokens: the text with the values put in is scanned for
\* tokens again (as replacing one column after the other does).
replaceTokensRescanning(input, keys, values) ==
    ReplaceFrom(ReplaceFrom(input, keys, values, 1), keys, values, 1)

\* input.replace(/@[a-zA-Z0-9_]*@/g, replacer)
replaceTokens(input, keys, values) == ReplaceFrom(input, keys, values, 1)

\* The tokens of tokensFoundInTemplate that the forEach pushes to
\* unavailableTokens (name is no column) and to usedTokens (name is a column).
UnavailableOf(tokens, columns) ==
    SelectSeq(tokens, LAMBDA tk : indexOf(columns, TokenName(tk)) = -1)
UsedOf(tokens, columns) ==
    SelectSeq(tokens, LAMBDA tk : indexOf(columns, TokenName(tk)) # -1)

\* ---------------------------------------------------------------- CSV
\* buffer.indexOf(10, from): 0-based index of the first line feed at or after
\* from, -1 when there is none.
RECURSIVE BufIndexOf(_, _)
BufIndexOf(buffer, from) ==
    IF from >= Len(buffer) THEN -1
    ELSE IF buffer[from + 1] = "\n" THEN from
    ELSE BufIndexOf(buffer, from + 1)

\* buffer.slice(0, end): a negative end counts from the end of the buffer.
BufSlice(buffer, end) ==
    LET e == IF end < 0 THEN Len(buffer) + end ELSE end
    IN SubSeq(buffer, 1, IF e < 0 THEN 0 ELSE e)

\* Fields of one line, split at the delimiter.
RECURSIVE SplitAt(_, _)
SplitAt(line, sep) ==
    IF \E k \in DOMAIN line : line[k] = sep
    THEN LET k == CHOOSE m \in DOMAIN line : line[m] = sep /\ \A q \in 1..(m - 1) : line[q] # sep
         IN <<SubSeq(line, 1, k - 1)>> \o SplitAt(SubSeq(line, k + 1, Len(line)), sep)
    ELSE <<line>>

\* csv-parse's parse(text): the records of the text, a line feed ending each
\* record; the last record may lack it; empty input has no records.
RECURSIVE parse(_)
parse(text) ==
    IF text = <<>> THEN <<>>
    ELSE LET nl == BufIndexOf(text, 0)
         IN IF nl = -1 THEN <<SplitAt(text, ",")>>
            ELSE <<SplitAt(SubSeq(text, 1, nl), ",")>> \o parse(SubSeq(text, nl + 2, Len(text)))

\* The do-while of the "data" handler: the number of times its body runs,
\* one more than the line feeds in the buffer from idx + 1 on.
RECURSIVE CountLoop(_, _)
CountLoop(buffer, idx) ==
    LET next == BufIndexOf(buffer, idx + 1)
    IN IF next = -1 THEN 1 ELSE 1 + CountLoop(buffer, next)

\* -------------------------------------------------------------- inputs
\* The two revisions of the script: sendEmails.js, and the later revision
\* that parses THROTTLE and CONCURRENCY with parseInt and reports the
\* resolved responses.
Scripts == {"sendEmails.js", "part_001"}

Email == <<"E", "m", "a", "i", "l">>
NameColumn == <<"N">>
Address(r) == <<"r", Digits[r + 1]>>

\* The record of data row r under the given header: an address in the
\* Email column, nameValue in every other column.
Row(header, r, nameValue) ==
    [c \in DOMAIN header |-> IF header[c] = Email THEN Address(r) ELSE nameValue]

RECURSIVE JoinWith(_, _)
JoinWith(parts, sep) ==
    IF parts = <<>> THEN <<>>
    ELSE IF Len(parts) = 1 THEN parts[1]
    ELSE parts[1] \o <<sep>> \o JoinWith(Tail(parts), sep)

\* The bytes of the CSV file of a record set: the header line and one line
\* per data row, with or without a line feed after the last line.
FileContent(rs) ==
    JoinWith([k \in 1..(Len(rs.rows) + 1) |->
            JoinWith(IF k = 1 THEN rs.header ELSE rs.rows[k - 1], ",")], "\n")
    \o (IF rs.trailingNewline THEN <<"\n">> ELSE <<>>)

RecordSet(header, n, nameValue, trailing) ==
    [header |-> header,
     rows |-> [r \in 1..n |-> Row(header, r, nameValue)],
     trailingNewline |-> trailing]

\* Default highWaterMark of fs.createReadStream: a small file arrives as
\* one chunk.
HighWaterMark == 65536

Config(subject, fromName, fromAddress, th, conc) ==
    [SUBJECT_LINE |-> subject, FROM_NAME |-> fromName, FROM_ADDRESS |-> fromAddress,
     THROTTLE |-> th, CONCURRENCY |-> conc]

PlainSubject == Str(<<"S">>)
FromName == Str(<<"F">>)
FromAddress == Str(<<"f", "@", "x">>)
NameToken == <<"@", "N", "@">>

ConcurrencyValues == {Undefined, Str(<<"0">>), Str(<<"1">>), Str(<<"2">>), Str(<<"3">>),
                      Str(<<"-", "1">>)}
ThrottleValues == {Undefined, Str(<<"0">>), Str(<<"5">>)}
RequiredValues == {Undefined, Str(<<>>), Str(<<"v">>)}
Headers == {<<Email>>, <<NameColumn, Email>>, <<Email, NameColumn>>,
            <<NameColumn, <<"e", "m", "a", "i", "l">>>>}
NameValues == {<<>>, <<"A">>, <<"@", "E", "m", "a", "i", "l", "@">>}
Subjects == {<<"S">>, NameToken}
Templates == {<<"h", "i">>,
              NameToken,
              <<"@", "E", "m", "a", "i", "l", "@", " ">> \o NameToken,
              <<"@", "P", "@", " ">> \o NameToken \o <<" ", "@", "P", "@", "@", "Q", "_", "1", "@">>,
              <<"@", "@">>,
              <<"a", "@", "b", " ", "@", "N", " ", "@">>,
              NameToken \o NameToken,
              <<"@", "n", "@">>}

Scenario(script, cfg, rs, sizes, template) ==
    [script |-> script, config |-> cfg, recordSet |-> rs, readSizes |-> sizes,
     template |-> template]

\* Batching and pacing: every record count, concurrency and throttle.
DispatchScenarios ==
    {Scenario(sc, Config(PlainSubject, FromName, FromAddress, th, conc),
              RecordSet(<<NameColumn, Email>>, n, <<"A">>, nl), {HighWaterMark}, NameToken) :
        sc \in Scripts, conc \in ConcurrencyValues, th \in ThrottleValues,
        n \in 0..MaxRecords, nl \in BOOLEAN}

\* Scanning: every header, record count, line ending and chunking.
ScanScenarios ==
    {Scenario(sc, Config(PlainSubject, FromName, FromAddress, Undefined, Undefined),
              RecordSet(h, n, <<"A">>, nl), 1..MaxChunk, <<"@", "E", "m", "a", "i", "l", "@">>) :
        sc \in Scripts, h \in Headers, n \in 0..MaxRecords, nl \in BOOLEAN}

\* Tokens: every subject, template and field value.
TokenScenarios ==
    {Scenario(sc, Config(Str(subj), FromName, FromAddress, Undefined, Undefined),
              RecordSet(<<NameColumn, Email>>, 1, nv, TRUE), {HighWaterMark}, tpl) :
        sc \in Scripts, subj \in Subjects, tpl \in Templates, nv \in NameValues}

\* Required configuration keys: absent, empty or set.
ConfigScenarios ==
    {Scenario(sc, Config(subj, fn, fa, Undefined, Undefined),
              RecordSet(<<NameColumn, Email>>, 1, <<"A">>, TRUE), {HighWaterMark}, NameToken) :
        sc \in Scripts, subj \in RequiredValues, fn \in RequiredValues, fa \in RequiredValues}

Scenarios == DispatchScenarios \cup ScanScenarios \cup TokenScenarios \cup ConfigScenarios

\* What sendgridMail.send can do with one message: accept it (status 202)
\* with or without an x-message-id header, answer with another status or a
\* reject value, or throw.
SendOutcomes == {"accepted", "acceptedNoId", "rejected", "threw"}
MessageId == Str(<<"m">>)

\* --------------------------------------------------------------- state
VARIABLES
    script,            \* which revision runs
    config,            \* dotenv.parse(configFileContents)
    recordSet,         \* the record set the CSV file holds
    readSizes,         \* chunk sizes the read stream may deliver
    templateFileContents,
    pc,                \* position of init()
    error,             \* the error that ended the run, "none" otherwise
    throttle, concurrency,
    scanPos,           \* bytes the read stream has delivered
    columnNames, recordCount,
    emailColumnIndex,
    usedTokens, unavailableTokens,
    confirmed,         \* the answer of confirm(), "unasked" before
    csvFileContents,
    i,                 \* the batch loop's index
    addressArray, responseArray,
    sends,             \* every message handed to sendgridMail.send, in order
    lines,             \* the outcome lines written, in order
    delays,            \* the setTimeout suspensions started
    batches,           \* the batch bodies entered ("Starting batch")
    passed,            \* the checks init() has got through, in order
    firstChunk         \* size of the first buffer the scanner was handed

inputVars == <<script, config, recordSet, readSizes, templateFileContents>>
scanVars == <<scanPos, columnNames, recordCount, firstChunk>>
checkVars == <<emailColumnIndex, usedTokens, unavailableTokens>>
loopVars == <<csvFileContents, i, addressArray, responseArray, sends, lines, delays,
             batches>>
vars == <<inputVars, pc, error, throttle, concurrency, scanVars, checkVars,
          confirmed, loopVars, passed>>

csvFile == FileContent(recordSet)

Init ==
    /\ \E sc \in Scenarios :
        /\ script = sc.script
        /\ config = sc.config
        /\ recordSet = sc.recordSet
        /\ readSizes = sc.readSizes
        /\ templateFileContents = sc.template
    /\ pc = "checkConfig"
    /\ error = "none"
    /\ throttle = Undefined
    /\ concurrency = Undefined
    /\ scanPos = 0
    /\ columnNames = <<>>
    /\ recordCount = 0
    /\ emailColumnIndex = -1
    /\ usedTokens = <<>>
    /\ unavailableTokens = <<>>
    /\ confirmed = "unasked"
    /\ csvFileContents = <<>>
    /\ i = Num(1)
    /\ addressArray = <<>>
    /\ responseArray = <<>>
    /\ sends = <<>>
    /\ lines = <<>>
    /\ delays = 0
    /\ batches = 0
    /\ passed = <<>>
    /\ firstChunk = 0

\* ------------------------------------------------- init(): validation
DefaultThrottle == 0
DefaultConcurrency == 1

\* !config.SUBJECT_LINE || !config.FROM_NAME || !config.FROM_ADDRESS
RequiredConfigMissing(cfg) ==
    ~Truthy(cfg.SUBJECT_LINE) \/ ~Truthy(cfg.FROM_NAME) \/ ~Truthy(cfg.FROM_ADDRESS)

\* sendEmails.js keeps the configured text; the later revision parses it.
ThrottleOf(sc, cfg) ==
    IF sc = "sendEmails.js" THEN Or(cfg.THROTTLE, Num(DefaultThrottle))
    ELSE Or(parseInt(cfg.THROTTLE), Num(DefaultThrottle))
ConcurrencyOf(sc, cfg) ==
    IF sc = "sendEmails.js" THEN Or(cfg.CONCURRENCY, Num(DefaultConcurrency))
    ELSE Or(parseInt(cfg.CONCURRENCY), Num(DefaultConcurrency))

\* A thrown error: init() rejects (or the process dies on the uncaught
\* exception) and nothing more runs.
Throw(reason) ==
    /\ pc' = "failed"
    /\ error' = reason

CheckConfig ==
    /\ pc = "checkConfig"
    /\ IF RequiredConfigMissing(config)
       THEN /\ Throw("MissingRequiredConfig")
            /\ UNCHANGED <<throttle, concurrency, passed>>
       ELSE /\ throttle' = ThrottleOf(script, config)
            /\ concurrency' = ConcurrencyOf(script, config)
            /\ pc' = "scan"
            /\ passed' = Append(passed, "config")
            /\ UNCHANGED error
    /\ UNCHANGED <<inputVars, scanVars, checkVars, confirmed, loopVars>>

\* getCsvInfo, "data" handler, for a chunk of up to size bytes.
Chunk(size) ==
    SubSeq(csvFile, scanPos + 1,
           IF scanPos + size > Len(csvFile) THEN Len(csvFile) ELSE scanPos + size)
HeaderRow(buffer) == BufSlice(buffer, BufIndexOf(buffer, 0))

OnData(size) ==
    /\ pc = "scan"
    /\ scanPos < Len(csvFile)
    /\ LET buffer == Chunk(size)
           header == parse(HeaderRow(buffer))
       IN IF columnNames = <<>> /\ header = <<>>
          THEN \* parse(headerRow, {})[0] is undefined and cannot be spread
               /\ Throw("TypeError")
               /\ UNCHANGED scanVars
          ELSE /\ columnNames' = IF columnNames = <<>> THEN header[1] ELSE columnNames
               /\ recordCount' = (recordCount - 1) + CountLoop(buffer, -1)
               /\ scanPos' = scanPos + Len(buffer)
               /\ firstChunk' = IF scanPos = 0 THEN Len(buffer) ELSE firstChunk
               /\ UNCHANGED <<pc, error>>
    /\ UNCHANGED <<inputVars, throttle, concurrency, checkVars, confirmed, loopVars,
                   passed>>

\* getCsvInfo, "end" handler: resolve({ columnNames, recordCount: recordCount - 1 }).
OnEnd ==
    /\ pc = "scan"
    /\ scanPos = Len(csvFile)
    /\ recordCount' = recordCount - 1
    /\ pc' = "checkCsv"
    /\ UNCHANGED <<inputVars, error, throttle, concurrency, scanPos, columnNames,
                   firstChunk, checkVars, confirmed, loopVars, passed>>

\* Mutant of OnError: the "error" handler resolves with what was scanned.
OnErrorResolving ==
    /\ pc = "scan"
    /\ recordCount' = recordCount - 1
    /\ pc' = "checkCsv"
    /\ error' = "ReadError"
    /\ UNCHANGED <<inputVars, throttle, concurrency, scanPos, columnNames,
                   firstChunk, checkVars, confirmed, loopVars, passed>>

\* getCsvInfo, "error" handler: the stream cannot open the file or a read
\* fails; reject(error), and the await in init() throws.
OnError ==
    /\ pc = "scan"
    /\ Throw("ReadError")
    /\ UNCHANGED <<inputVars, throttle, concurrency, scanVars, checkVars, confirmed,
                   loopVars, passed>>

CheckCsv ==
    /\ pc = "checkCsv"
    /\ emailColumnIndex' = indexOf(columnNames, Email)
    /\ IF indexOf(columnNames, Email) = -1
       THEN Throw("MissingEmailColumn") /\ UNCHANGED passed
       ELSE pc' = "checkTemplate" /\ passed' = Append(passed, "email") /\ UNCHANGED error
    /\ UNCHANGED <<inputVars, throttle, concurrency, scanVars, usedTokens,
                   unavailableTokens, confirmed, loopVars>>

tokensFoundInTemplate == Match(config.SUBJECT_LINE.v \o templateFileContents)

CheckTemplate ==
    /\ pc = "checkTemplate"
    /\ IF tokensFoundInTemplate.isNull
       THEN \* null.forEach
            /\ Throw("TypeError")
            /\ UNCHANGED <<usedTokens, unavailableTokens, passed>>
       ELSE /\ usedTokens' = UsedOf(tokensFoundInTemplate.items, columnNames)
            /\ unavailableTokens' = UnavailableOf(tokensFoundInTemplate.items, columnNames)
            /\ IF UnavailableOf(tokensFoundInTemplate.items, columnNames) # <<>>
               THEN Throw("UnknownToken") /\ UNCHANGED passed
               ELSE pc' = "confirm" /\ passed' = Append(passed, "tokens") /\ UNCHANGED error
    /\ UNCHANGED <<inputVars, throttle, concurrency, scanVars, emailColumnIndex,
                   confirmed, loopVars>>

\* Mutant of Confirm: the answer is recorded but the loop runs either way.
ConfirmIgnoringAnswer(answer) ==
    /\ pc = "confirm"
    /\ confirmed' = IF answer THEN "yes" ELSE "no"
    /\ csvFileContents' = parse(csvFile)
    /\ pc' = "loop"
    /\ passed' = Append(passed, "confirm")
    /\ UNCHANGED <<inputVars, error, throttle, concurrency, scanVars, checkVars,
                   i, addressArray, responseArray, sends, lines, delays, batches>>

\* await confirm(...): true runs the loop, false returns from init().
Confirm(answer) ==
    /\ pc = "confirm"
    /\ confirmed' = IF answer THEN "yes" ELSE "no"
    /\ IF answer
       THEN /\ csvFileContents' = parse(csvFile)
            /\ pc' = "loop"
            /\ passed' = Append(passed, "confirm")
       ELSE /\ pc' = "returned"
            /\ UNCHANGED <<csvFileContents, passed>>
    /\ UNCHANGED <<inputVars, error, throttle, concurrency, scanVars, checkVars,
                   i, addressArray, responseArray, sends, lines, delays, batches>>

\* --------------------------------------------------- init(): dispatch
\* Mutant of InnerLoopCount: the loop test written j <= concurrency.
InnerLoopCountInclusive(conc) ==
    IF ToNumber(conc).t = "number" /\ ToNumber(conc).v >= 0 THEN ToNumber(conc).v + 1 ELSE 0

\* for (let j = 0; j < concurrency; j++): the number of times the body runs.
InnerLoopCount(conc) ==
    IF ToNumber(conc).t = "number" /\ ToNumber(conc).v > 0 THEN ToNumber(conc).v ELSE 0

\* Mutant of BatchKeys: the record is read at csvFileContents[i], the j of
\* the inner loop left out.
BatchKeysIgnoringJ(contents, start, conc) ==
    SelectSeq([j \in 1..InnerLoopCount(conc) |-> start],
              LAMBDA key : HasElement(contents, key))

\* The keys i + j of the inner loop, in order, for which csvFileContents
\* has a record.
BatchKeys(contents, start, conc) ==
    SelectSeq([j \in 1..InnerLoopCount(conc) |-> Add(start, Num(j - 1))],
              LAMBDA key : HasElement(contents, key))

\* The message sendOneEmail builds for a record.
MessageFor(currentRecord) ==
    [from |-> config.FROM_ADDRESS.v,
     fromName |-> config.FROM_NAME.v,
     to |-> IF emailColumnIndex + 1 \in DOMAIN currentRecord
            THEN currentRecord[emailColumnIndex + 1] ELSE <<>>,
     subject |-> replaceTokens(config.SUBJECT_LINE.v, columnNames, currentRecord),
     html |-> replaceTokens(templateFileContents, columnNames, currentRecord)]

\* The inner loop: one sendOneEmail call per record of the batch, each
\* running up to its await of sendgridMail.send.
FanOut ==
    LET keys == BatchKeys(csvFileContents, i, concurrency)
        records == [k \in DOMAIN keys |-> Element(csvFileContents, keys[k])]
    IN /\ addressArray' = [k \in DOMAIN keys |-> MessageFor(records[k]).to]
       /\ responseArray' = [k \in DOMAIN keys |-> Len(sends) + k]
       /\ sends' = sends \o [k \in DOMAIN keys |->
                               [row |-> IndexOf(keys[k]),
                                message |-> MessageFor(records[k]),
                                outcome |-> "pending",
                                value |-> Pending]]

\* The for statement's test, then the head of the batch body.
BatchStart ==
    /\ pc = "loop"
    /\ IF ~LessEq(i, Num(recordCount))
       THEN /\ pc' = "returned"
            /\ UNCHANGED <<addressArray, responseArray, sends, delays, batches>>
       ELSE /\ batches < MaxBatches
            /\ batches' = batches + 1
            /\ IF Truthy(throttle)
               THEN /\ delays' = delays + 1
                    /\ pc' = "throttle"
                    /\ UNCHANGED <<addressArray, responseArray, sends>>
               ELSE /\ FanOut
                    /\ pc' = "join"
                    /\ UNCHANGED delays
    /\ UNCHANGED <<inputVars, error, throttle, concurrency, scanVars, checkVars,
                   confirmed, csvFileContents, i, lines, passed>>

\* The setTimeout of the throttle fires.
ThrottleDone ==
    /\ pc = "throttle"
    /\ FanOut
    /\ pc' = "join"
    /\ UNCHANGED <<inputVars, error, throttle, concurrency, scanVars, checkVars,
                   confirmed, csvFileContents, i, lines, delays, batches, passed>>

\* What sendOneEmail returns for an outcome of sendgridMail.send.
ReturnValue(outcome) ==
    CASE outcome = "accepted" -> MessageId
      [] outcome = "acceptedNoId" -> Undefined
      [] OTHER -> False

\* sendgridMail.send settles for send k and sendOneEmail returns.
SendSettles(k, outcome) ==
    /\ k \in DOMAIN sends
    /\ sends[k].outcome = "pending"
    /\ sends' = [sends EXCEPT ![k].outcome = outcome, ![k].value = ReturnValue(outcome)]
    /\ UNCHANGED <<inputVars, pc, error, throttle, concurrency, scanVars, checkVars,
                   confirmed, csvFileContents, i, addressArray, responseArray, lines,
                   delays, batches, passed>>

\* Mutant of AllSettled: the batch is awaited with Promise.race, which
\* resolves with the first send that settles.
FirstSettled(responses) ==
    responses = <<>> \/ \E k \in DOMAIN responses : sends[responses[k]].outcome # "pending"

\* Promise.all(responseArray) resolves.
AllSettled(responses) == \A k \in DOMAIN responses : sends[responses[k]].outcome # "pending"

\* The value the reporting forEach tests: sendEmails.js iterates the array of
\* promises, the later revision the resolved responses.
PromiseObject == [t |-> "object", v |-> <<>>]
ReportedValue(sc, id) == IF sc = "sendEmails.js" THEN PromiseObject ELSE sends[id].value
IsTruthyValue(x) == x.t = "object" \/ Truthy(x)

\* Mutant of ReportLines: the line shows the position in the batch instead
\* of i + index.
ReportLinesBatchIndex ==
    [k \in DOMAIN responseArray |->
        [index |-> Num(k),
         total |-> recordCount,
         address |-> addressArray[k],
         success |-> IsTruthyValue(ReportedValue(script, responseArray[k])),
         id |-> ReportedValue(script, responseArray[k])]]

\* Mutant of ReportLines: the batch's lines are written last send first.
ReportLinesReversed ==
    [k \in DOMAIN responseArray |->
        [index |-> Add(i, Num(Len(responseArray) - k)),
         total |-> recordCount,
         address |-> addressArray[Len(responseArray) + 1 - k],
         success |-> IsTruthyValue(ReportedValue(script,
                         responseArray[Len(responseArray) + 1 - k])),
         id |-> ReportedValue(script, responseArray[Len(responseArray) + 1 - k])]]

\* The reporting forEach: one line per element of the batch, in array order.
ReportLines ==
    [k \in DOMAIN responseArray |->
        [index |-> Add(i, Num(k - 1)),
         total |-> recordCount,
         address |-> addressArray[k],
         success |-> IsTruthyValue(ReportedValue(script, responseArray[k])),
         id |-> ReportedValue(script, responseArray[k])]]

\* The await of Promise.all returns, the outcomes are reported, i += concurrency.
Join ==
    /\ pc = "join"
    /\ AllSettled(responseArray)
    /\ lines' = lines \o ReportLines
    /\ i' = Add(i, concurrency)
    /\ pc' = "loop"
    /\ UNCHANGED <<inputVars, error, throttle, concurrency, scanVars, checkVars,
                   confirmed, csvFileContents, addressArray, responseArray, sends, delays,
                   batches, passed>>

\* init().then(() => { log('DONE') })
Done ==
    /\ pc = "returned"
    /\ pc' = "done"
    /\ UNCHANGED <<inputVars, error, throttle, concurrency, scanVars, checkVars,
                   confirmed, loopVars, passed>>

Next ==
    \/ CheckConfig
    \/ \E size \in readSizes : OnData(size)
    \/ OnEnd
    \/ OnError
    \/ CheckCsv
    \/ CheckTemplate
    \/ \E answer \in BOOLEAN : Confirm(answer)
    \/ BatchStart
    \/ ThrottleDone
    \/ \E k \in DOMAIN sends, outcome \in SendOutcomes : SendSettles(k, outcome)
    \/ Join
    \/ Done

Spec == Init /\ [][Next]_vars

\* ------------------------------------------------------------ properties
\* The concurrency in effect in the dispatch loop, as a number.
EffectiveConcurrency ==
    IF ToNumber(concurrency).t = "number" THEN ToNumber(concurrency).v ELSE 0
EffectiveThrottle ==
    IF ToNumber(throttle).t = "number" THEN ToNumber(throttle).v ELSE 0
\* The scanner reported the number of data rows the file holds.
CountIsRight == recordCount = Len(recordSet.rows)
Dispatching == confirmed = "yes"
Finished == pc \in {"returned", "done"}
RowsSubmitted == [k \in DOMAIN sends |-> sends[k].row]
InFlight == {k \in DOMAIN sends : sends[k].outcome = "pending"}
SendFailed(k) == sends[k].outcome \in {"rejected", "threw"}
CeilDiv(a, b) == (a + b - 1) \div b
Min(a, b) == IF a < b THEN a ELSE b

\* C1: for a record count n >= 0 (the number of data rows, as the scanner
\* reported it) and a concurrency C >= 1 (configured or default), the rows
\* are submitted in row order, each once; the batch in flight is the k-th,
\* rows k*C+1 .. min((k+1)*C, n); a finished run has run ceil(n/C) batches
\* and submitted all n rows.
C1_BatchesCoverRecords ==
    (Dispatching /\ CountIsRight /\ EffectiveConcurrency >= 1) =>
        /\ RowsSubmitted = [k \in 1..Len(sends) |-> k]
        /\ pc = "join" =>
              /\ Len(sends) = Min(batches * EffectiveConcurrency, recordCount)
              /\ responseArray =
                    [k \in 1..(Len(sends) - (batches - 1) * EffectiveConcurrency) |->
                        (batches - 1) * EffectiveConcurrency + k]
        /\ Finished =>
              /\ Len(sends) = recordCount
              /\ batches = CeilDiv(recordCount, EffectiveConcurrency)

\* C2: a failed send does not abort the run: the run never fails once it
\* dispatches, and a finished run in which a send failed has still submitted
\* every data record of the record set.
C2_FailureDoesNotAbort ==
    Dispatching =>
        /\ pc # "failed"
        /\ (Finished /\ \E k \in DOMAIN sends : SendFailed(k)) =>
              \A r \in DOMAIN recordSet.rows : \E k \in DOMAIN sends : sends[k].row = r

\* C3: every outcome line written says Failed exactly when the send of its
\* record failed, and when the run is done each data record has exactly one
\* outcome line (for a concurrency of at least 1 and a record set whose rows
\* the scanner counted).
C3_OneOutcomePerRecord ==
    (Dispatching /\ CountIsRight /\ EffectiveConcurrency >= 1) =>
        /\ \A m \in DOMAIN lines :
              \E k \in DOMAIN sends :
                  /\ Num(sends[k].row) = ToNumber(lines[m].index)
                  /\ lines[m].success = ~SendFailed(k)
        /\ pc = "done" =>
              /\ Len(lines) = Len(recordSet.rows)
              /\ \A r \in DOMAIN recordSet.rows :
                    Cardinality({m \in DOMAIN lines : ToNumber(lines[m].index) = Num(r)}) = 1

\* C4: a send is started only when no earlier send is still in flight, so
\* no send of batch k+1 starts before every send of batch k has settled.
C4_JoinBeforeNextBatch ==
    [][Len(sends') > Len(sends) => InFlight = {}]_vars

\* C4 witness: a later batch is in flight after a batch in which one send
\* failed and one succeeded.
C4_Witness ==
    /\ pc = "join"
    /\ InFlight # {}
    /\ Len(sends) > Len(responseArray)
    /\ \E k \in DOMAIN sends : SendFailed(k)
    /\ \E k \in DOMAIN sends : sends[k].outcome = "accepted"

\* C5: at every moment at most CONCURRENCY sends are in flight.
C5_BoundedInFlight ==
    sends # <<>> =>
        /\ ToNumber(concurrency).t = "number"
        /\ Cardinality(InFlight) <= EffectiveConcurrency

\* C5 witness: a full batch of two or more sends, all in flight, after an
\* earlier batch.
C5_Witness ==
    /\ sends # <<>>
    /\ Cardinality(InFlight) = EffectiveConcurrency
    /\ EffectiveConcurrency >= 2
    /\ Len(sends) > Len(responseArray)

\* C6: with THROTTLE > 0 a finished run of B batches has suspended exactly
\* B - 1 times (not before the first batch); with THROTTLE = 0 it has never
\* suspended.
C6_ThrottleBetweenBatches ==
    (Dispatching /\ Finished) =>
        IF EffectiveThrottle > 0
        THEN delays = (IF batches = 0 THEN 0 ELSE batches - 1)
        ELSE delays = 0

\* C7: a send happens only after the required config keys were found, then
\* the Email column, then every token was found to name a column, then the
\* operator said yes; a run that failed a check or was declined has sent
\* nothing.
C7_NoSendBeforeChecks ==
    /\ (sends # <<>> \/ pc \in {"loop", "throttle", "join"}) =>
          /\ passed = <<"config", "email", "tokens", "confirm">>
          /\ ~RequiredConfigMissing(config)
          /\ \E c \in DOMAIN columnNames : columnNames[c] = Email
          /\ \A m \in DOMAIN MatchAll(config.SUBJECT_LINE.v \o templateFileContents, 1) :
                \E c \in DOMAIN columnNames :
                    columnNames[c] =
                        TokenName(MatchAll(config.SUBJECT_LINE.v \o templateFileContents, 1)[m])
          /\ confirmed = "yes"
    /\ (pc = "failed" \/ confirmed = "no") => sends = <<>>

\* C7 witness: a run that passed every check and has sent.
C7_Witness ==
    /\ sends # <<>>
    /\ passed = <<"config", "email", "tokens", "confirm">>

\* C8: when the header row lies in the first chunk, getCsvInfo resolves with
\* the header's column names and the number of data rows, with or without a
\* line feed after the last row.
C8_ScannerCountsRecords ==
    (pc = "checkCsv" /\ firstChunk >= Len(JoinWith(recordSet.header, ","))) =>
        /\ columnNames = recordSet.header
        /\ recordCount = Len(recordSet.rows)

\* C9: a subject line and template without any token pass the token check
\* and the run goes on to the confirmation.
C9_NoTokensPasses ==
    [][(pc = "checkTemplate"
        /\ MatchAll(config.SUBJECT_LINE.v \o templateFileContents, 1) = <<>>)
       => pc' = "confirm"]_vars

\* Substitution as specified: every token whose name is a column becomes the
\* record's value at that column, every other token stays.
RECURSIVE Substituted(_, _, _, _)
Substituted(text, keys, values, p) ==
    IF p > Len(text) THEN <<>>
    ELSE IF MatchAt(text, p)
         THEN (IF \E c \in DOMAIN keys : c \in DOMAIN values
                       /\ keys[c] = SubSeq(text, p + 1, MatchEnd(text, p) - 1)
               THEN values[indexOf(keys, SubSeq(text, p + 1, MatchEnd(text, p) - 1)) + 1]
               ELSE SubSeq(text, p, MatchEnd(text, p)))
              \o Substituted(text, keys, values, MatchEnd(text, p) + 1)
         ELSE <<text[p]>> \o Substituted(text, keys, values, p + 1)

\* C10: the subject and body sent for a record are the subject line and the
\* template with every token that names a column replaced by the record's
\* value, the empty string included, and every other token left as it is.
C10_ReplaceTokens ==
    \A k \in DOMAIN sends :
        /\ sends[k].message.html =
              Substituted(templateFileContents, columnNames, csvFileContents[sends[k].row + 1], 1)
        /\ sends[k].message.subject =
              Substituted(config.SUBJECT_LINE.v, columnNames, csvFileContents[sends[k].row + 1], 1)

\* The tokens of the subject line and template whose name equals no column
\* name, in order of occurrence.
TokensWithoutColumn ==
    SelectSeq(MatchAll(config.SUBJECT_LINE.v \o templateFileContents, 1),
              LAMBDA tk : \A c \in DOMAIN columnNames : columnNames[c] # TokenName(tk))

\* C11: the token check fails if and only if some token names no column, and
\* the failure then carries every such token and no token that names a column.
C11_TokenValidation ==
    [][pc = "checkTemplate" =>
          /\ (pc' = "failed") <=> (TokensWithoutColumn # <<>>)
          /\ pc' = "failed" => unavailableTokens' = TokensWithoutColumn]_vars

\* C12: once dispatching has started the run goes on to its end: every pass
\* through the batch loop leaves the batch start index greater than before,
\* or past recordCount so that the loop is left.
C12_LoopAdvances ==
    [][(pc = "join" /\ pc' = "loop") =>
          (Less(i, i') \/ ~LessEq(i', Num(recordCount)))]_vars

\* C13: over a whole run no data record is handed to the sender twice,
\* whether its send failed or not.
C13_AtMostOnce ==
    \A k1, k2 \in DOMAIN sends : sends[k1].row = sends[k2].row => k1 = k2

\* C13 witness: a finished run of several batches in which a send failed.
C13_Witness ==
    /\ pc = "done"
    /\ batches >= 2
    /\ Len(sends) >= 3
    /\ \E k \in DOMAIN sends : SendFailed(k) /\ k < Len(sends)

\* The provider accepted send k: no thrown error, no reject value, status 202.
SendAccepted(k) == sends[k].outcome \in {"accepted", "acceptedNoId"}

\* C14: the outcome line of a send the provider accepted says Delivered,
\* with or without a message identifier in the provider's answer.
C14_AcceptedIsDelivered ==
    \A m \in DOMAIN lines :
        (m \in DOMAIN sends /\ SendAccepted(m)) => lines[m].success

\* The positions of the original text at which a token starts, scanning from
\* p, and the positions that lie inside a token after its first character.
RECURSIVE TokenStarts(_, _)
TokenStarts(text, p) ==
    IF p > Len(text) THEN {}
    ELSE IF MatchAt(text, p) THEN {p} \cup TokenStarts(text, MatchEnd(text, p) + 1)
    ELSE TokenStarts(text, p + 1)
InsideToken(text, q) ==
    \E p \in TokenStarts(text, 1) : p < q /\ q <= MatchEnd(text, p)

\* What position q of the original text contributes to the result: the
\* replacer's text for the token that starts there, nothing for the rest of
\* a token, the character itself elsewhere.
Contribution(text, keys, values, q) ==
    IF q \in TokenStarts(text, 1)
    THEN Replacement(SubSeq(text, q, MatchEnd(text, q)), keys, values)
    ELSE IF InsideToken(text, q) THEN <<>>
    ELSE <<text[q]>>

RECURSIVE Flatten(_)
Flatten(parts) == IF parts = <<>> THEN <<>> ELSE Head(parts) \o Flatten(Tail(parts))

\* One pass over the original text: the contributions of its positions, each
\* fixed by the original text alone, in order.
SinglePass(text, keys, values) ==
    Flatten([q \in 1..Len(text) |-> Contribution(text, keys, values, q)])

\* C15: the subject and body sent are one pass over the original subject
\* line and template: what is put in for a token is not scanned for tokens,
\* so a field value of the form @Name@ arrives as it is.
C15_SinglePass ==
    \A k \in DOMAIN sends :
        /\ sends[k].message.html =
              SinglePass(templateFileContents, columnNames, csvFileContents[sends[k].row + 1])
        /\ sends[k].message.subject =
              SinglePass(config.SUBJECT_LINE.v, columnNames, csvFileContents[sends[k].row + 1])

\* C15 witness: a record whose N field is the text @Email@ was sent with the
\* template @N@, and the body sent is that text, not the address.
C15_Witness ==
    \E k \in DOMAIN sends :
        /\ templateFileContents = NameToken
        /\ csvFileContents[sends[k].row + 1][1] = <<"@", "E", "m", "a", "i", "l", "@">>
        /\ sends[k].message.html = <<"@", "E", "m", "a", "i", "l", "@">>

\* C16: when the read stream reports an error (the file does not exist, or a
\* read fails during the scan) the run has failed at the scan: no column
\* names and record count were handed to init(), no later check ran, the
\* operator was not asked and nothing was sent.
C16_ScanErrorAborts ==
    error = "ReadError" =>
        /\ pc = "failed"
        /\ passed = <<"config">>
        /\ emailColumnIndex = -1
        /\ confirmed = "unasked"
        /\ sends = <<>>

\* C16 witness: the read failed after a chunk with the header and a record
\* had been scanned.
C16_Witness ==
    /\ error = "ReadError"
    /\ columnNames # <<>>
    /\ scanPos > 0
    /\ scanPos < Len(csvFile)

\* What getCsvInfo resolves with when the whole content arrives as one chunk.
OneChunkNames == parse(HeaderRow(csvFile))[1]
OneChunkCount == (CountLoop(csvFile, -1) - 1) - 1

\* C17: for a content whose header row lies in the first chunk, getCsvInfo
\* resolves with the same column names and record count however the content
\* is cut into chunks, that is with what it resolves with for one chunk.
C17_ChunkingIndependent ==
    (pc = "checkCsv" /\ firstChunk >= Len(JoinWith(recordSet.header, ","))) =>
        /\ columnNames = OneChunkNames
        /\ recordCount = OneChunkCount

\* C18: in a confirmed run no record beyond the count N that the scanner
\* reported is sent and every outcome line's index lies in 1..N; a finished
\* run with a concurrency of at least 1 has sent exactly N records (N >= 0).
C18_SendsMatchCount ==
    Dispatching =>
        /\ \A k \in DOMAIN sends : sends[k].row \in 1..recordCount
        /\ \A m \in DOMAIN lines :
              /\ LessEq(Num(1), lines[m].index)
              /\ LessEq(lines[m].index, Num(recordCount))
        /\ (Finished /\ EffectiveConcurrency >= 1 /\ recordCount >= 0) =>
              Len(sends) = recordCount

\* C19: the m-th outcome line belongs to the m-th send: it carries that
\* record's row index, the record count and the record's Email field, and
\* the value it tests is the one that send produced.
C19_LineMatchesRecord ==
    \A m \in DOMAIN lines :
        /\ m \in DOMAIN sends
        /\ ToNumber(lines[m].index) = Num(sends[m].row)
        /\ lines[m].total = recordCount
        /\ lines[m].address = csvFileContents[sends[m].row + 1][emailColumnIndex + 1]
        /\ lines[m].address = sends[m].message.to
        /\ lines[m].id \in {sends[m].value, PromiseObject}

\* C19 witness: the lines of a run whose last batch was short, with one
\* failed and one delivered send.
C19_Witness ==
    /\ pc = "done"
    /\ EffectiveConcurrency = 2
    /\ Len(lines) = 3
    /\ \E m \in DOMAIN lines : ~lines[m].success
    /\ \E m \in DOMAIN lines : lines[m].success

\* The outcome lines are in strictly ascending record index.
Ascending(ls) ==
    \A m \in 1..(Len(ls) - 1) : Less(ls[m].index, ls[m + 1].index)

\* C20: the outcome lines are written in ascending record index, whatever
\* the order in which the sends settle, and when a send starts every earlier
\* send's outcome line has been written.
C20_LinesInOrder ==
    [][/\ Ascending(lines')
       /\ Len(sends') > Len(sends) => Len(lines) = Len(sends)]_vars

\* C20 witness: after a first batch was reported, the second send of the
\* batch in flight has settled before the first.
C20_Witness ==
    /\ pc = "join"
    /\ Len(lines) >= 2
    /\ Len(responseArray) >= 2
    /\ sends[responseArray[1]].outcome = "pending"
    /\ sends[responseArray[2]].outcome # "pending"

\* C21: DONE is logged only at the end of a run that dispatched: the
\* operator confirmed, no check failed, the loop has left its last batch
\* behind and every send has its outcome line; it is never logged for a run
\* that a failed check or a declined confirmation ended.
C21_DoneOnlyAfterDispatch ==
    pc = "done" =>
        /\ confirmed = "yes"
        /\ error = "none"
        /\ passed = <<"config", "email", "tokens", "confirm">>
        /\ ~LessEq(i, Num(recordCount))
        /\ InFlight = {}
        /\ Len(lines) = Len(sends)

====
